---- MODULE Spec2Model ----
(***************************************************************************)
(* Model of src/src/main.py: the queue consumer that polls an import job,  *)
(* resolves project ids, applies tags and deletes or requeues the message, *)
(* with a background lease-renewal task per message.                       *)
(*                                                                         *)
(* A coroutine is split at its awaits on the queue transport (the call is  *)
(* issued in one step and completes in a later one, so that the renewal    *)
(* task and the processor interleave as asyncio lets them); an HTTP call   *)
(* is one step that also picks the response.  Every step runs the          *)
(* synchronous code up to the next await, exception handlers and the       *)
(* finally block included.                                                 *)
(*                                                                         *)
(* Spec is the program with collaborators that answer as they please;      *)
(* SpecBackoff runs the backoff computation alone over a range of          *)
(* configurations; SpecReliable is the program with a queue whose calls    *)
(* succeed and that redelivers, under the fairness of the event loop.      *)
(***************************************************************************)
EXTENDS Integers, Sequences, FiniteSets, TLC

\* ---------------------------------------------------------------- constants
MAX_ATTEMPTS == 5
MAX_TIMEOUT_MINUTES == 30
VISIBILITY_TIMEOUT_SECONDS == 30

\* Bounds of the model.
MaxPages == 2         \* listing pages the server chains
MaxOvershoot == 1     \* how far above MAX_ATTEMPTS a stored attempts may go

MaxCap == 6           \* largest MAX_ATTEMPTS a backoff chain is configured with
MaxMinutes == 30      \* largest MAX_TIMEOUT_MINUTES a backoff chain is configured with

MsgIds == {1}         \* messages of a single-message run
BatchIds == {1, 2}    \* messages of a two-message batch

\* ------------------------------------------------------------- JSON values
\* A JSON value: t is its type, n the number (or the id of a string),
\* l the list of tag ids of a tags array.
JInt(n) == [t |-> "int", n |-> n, l |-> <<>>]
JStr(n) == [t |-> "str", n |-> n, l |-> <<>>]
JTags(l) == [t |-> "tags", n |-> 0, l |-> l]

RequiredKeys == <<"target_name", "branch", "tags", "org_id", "import_job_url">>

\* A message body as text: syntactically invalid JSON, a JSON value that is
\* not an object, or an object given by its members in text order (a key may
\* be repeated); ws tells whether the text has insignificant white space.
BadJson == [json |-> "invalid", members |-> <<>>, ws |-> FALSE]
NonObject == [json |-> "nonobject", members |-> <<>>, ws |-> FALSE]
ObjectText(members, ws) == [json |-> "object", members |-> members, ws |-> ws]

\* ---- python dict (insertion ordered, unique keys) as a sequence of pairs
RECURSIVE IndexOf(_, _, _)
IndexOf(d, k, i) ==
    IF i > Len(d) THEN 0
    ELSE IF d[i][1] = k THEN i ELSE IndexOf(d, k, i + 1)

Has(d, k) == IndexOf(d, k, 1) # 0
Get(d, k) == d[IndexOf(d, k, 1)][2]

\* d[k] = v : an existing key keeps its position, a new key is appended.
SetItem(d, k, v) ==
    IF Has(d, k)
    THEN [i \in 1..Len(d) |-> IF d[i][1] = k THEN <<k, v>> ELSE d[i]]
    ELSE Append(d, <<k, v>>)

\* The dict of an object's members: a key stands where it occurs first and
\* holds the value of its last occurrence; without a repeated key that is
\* the members as they stand.
FromMembers(members) ==
    LET n == Len(members)
        first == SelectSeq([i \in 1..n |-> i],
                           LAMBDA i : \A j \in 1..(i - 1) : members[j][1] # members[i][1])
        last(k) == CHOOSE i \in 1..n :
                       /\ members[i][1] = k
                       /\ \A j \in (i + 1)..n : members[j][1] # k
    IN  IF \A i \in 1..n : \A j \in 1..(i - 1) : members[j][1] # members[i][1]
        THEN members
        ELSE [p \in 1..Len(first) |->
                <<members[first[p]][1], members[last(members[first[p]][1])][2]>>]

\* json.loads: raises JSONDecodeError on invalid text; a repeated key keeps
\* the position of its first occurrence and its last value.
Loads(body) ==
    IF body.json = "invalid" THEN [exc |-> "JSONDecodeError", type |-> "none", dict |-> <<>>]
    ELSE IF body.json = "nonobject" THEN [exc |-> "none", type |-> "other", dict |-> <<>>]
    ELSE [exc |-> "none", type |-> "dict", dict |-> FromMembers(body.members)]

\* json.dumps: the members of the dict in order, in the canonical layout.
Dumps(d) == ObjectText(d, FALSE)

\* ---------------------------------------------------------- message bodies
AttemptsInt(v) == v.t = "int"
Unbound == [t |-> "unbound", n |-> 0, l |-> <<>>]

BaseMembers(tagl) ==
    << <<"target_name", JStr(1)>>, <<"branch", JStr(2)>>, <<"tags", JTags(tagl)>>,
       <<"org_id", JStr(3)>>, <<"import_job_url", JStr(4)>> >>

Without(members, k) == SelectSeq(members, LAMBDA p : p[1] # k)

\* Bodies a producer may enqueue: job descriptors with attempts absent or in
\* 0..MAX_ATTEMPTS, one without tags, one with a repeated key and white
\* space, one whose attempts is a string, objects lacking one required
\* field, a JSON value that is no object, and text that is no JSON.
WithAttempts(tagl, a) == Append(BaseMembers(tagl), <<"attempts", JInt(a)>>)

WellFormedBodies ==
    {ObjectText(BaseMembers(<<1, 2>>), FALSE)}
    \cup {ObjectText(WithAttempts(<<1, 2>>, a), FALSE) : a \in 0..MAX_ATTEMPTS}
    \cup {ObjectText(<<<<"attempts", JInt(MAX_ATTEMPTS - 1)>>>> \o BaseMembers(<<>>), FALSE),
          ObjectText(<<<<"branch", JStr(5)>>>> \o WithAttempts(<<2>>, MAX_ATTEMPTS - 1), TRUE)}

MissingFieldBodies ==
    {ObjectText(Without(BaseMembers(<<1, 2>>), RequiredKeys[i]), FALSE) :
        i \in 1..Len(RequiredKeys)}

InitBodies ==
    WellFormedBodies \cup MissingFieldBodies
    \cup {ObjectText(Append(BaseMembers(<<1>>), <<"attempts", JStr(6)>>), FALSE),
          NonObject, BadJson}

\* The bodies of a two-message batch: a job at the attempts cap and a
\* sibling that does not decode.
BatchBodies == {ObjectText(WithAttempts(<<1, 2>>, MAX_ATTEMPTS), FALSE)}
SiblingBodies == {NonObject, BadJson}

\* Lines 297-303 of process_message: the exception raised, if any, and the
\* value bound to attempts (unbound when an earlier line raised).
Decode(body) ==
    LET r == Loads(body)
        missing == {i \in 1..Len(RequiredKeys) : ~Has(r.dict, RequiredKeys[i])}
    IN  IF r.exc # "none" THEN [exc |-> r.exc, attempts |-> Unbound]
        ELSE IF r.type # "dict" THEN [exc |-> "TypeError", attempts |-> Unbound]
        ELSE IF missing # {} THEN [exc |-> "KeyError", attempts |-> Unbound]
        ELSE [exc |-> "none",
              attempts |-> IF Has(r.dict, "attempts") THEN Get(r.dict, "attempts")
                           ELSE JInt(0)]

\* The message decodes into a job descriptor with an integer attempts.
WellFormed(body) ==
    Decode(body).exc = "none" /\ AttemptsInt(Decode(body).attempts)

\* ------------------------------------------------------------------ backoff
RECURSIVE Pow2(_)
Pow2(k) == IF k <= 0 THEN 1 ELSE 2 * Pow2(k - 1)

\* VisibilityTimeout with the exponent counting the attempts made instead
\* of the attempts left: the duration shrinks from requeue to requeue.
VisibilityTimeoutShrinking(att, max_attempts, max_minutes) ==
    (max_minutes * 60) \div Pow2(att)

\* requeue_message lines 391-392:
\* int(MAX_TIMEOUT_MINUTES * 0.5 ** (MAX_ATTEMPTS - attempts) * 60); the
\* products by powers of two are exact in binary floating point and int()
\* drops the fraction.
VisibilityTimeout(att, max_attempts, max_minutes) ==
    IF att <= max_attempts
    THEN (max_minutes * 60) \div Pow2(max_attempts - att)
    ELSE max_minutes * 60 * Pow2(att - max_attempts)

TimeoutSeconds(att) == VisibilityTimeout(att, MAX_ATTEMPTS, MAX_TIMEOUT_MINUTES)

\* ------------------------------------------------------------------- state
VARIABLES
    queue,            \* the queue's side: per message, present, content, vis
    mainpc,           \* position of main's loop
    pc,               \* position of each process_message task
    message,          \* message.content as received
    attempts,         \* the local attempts of process_message
    all_project_ids,  \* the identifiers retrieve_project_ids has accumulated
    tagpos,           \* <<i, j>>: tag_projects is at project_ids[i], tags[j]
    all_successful,   \* the local all_successful of tag_projects
    renew,            \* state of the renewal task
    calls,            \* delete and requeue calls issued in this attempt
    http,             \* status, listing and tag-apply calls of this attempt
    status_resp,      \* what the status endpoint answered in this attempt
    raced,            \* a renewal was in flight at, or issued after, a terminal call
    result,           \* how process_message ended
    hist,             \* what the HTTP collaborators answered in this attempt
    backoff,          \* a chain of requeues under one configuration
    rounds            \* deliveries of each message by a queue that redelivers

vars == <<queue, mainpc, pc, message, attempts, all_project_ids, tagpos,
          all_successful, renew, calls, http, status_resp, raced, result,
          hist, backoff, rounds>>

Ids == MsgIds \cup BatchIds

NoHttp == [status |-> 0, list |-> 0, tag |-> 0]

\* Nothing answered yet: the pages retrieve_project_ids was served, how it
\* ended, the (project, tag) pairs tag_projects posted, whether a post
\* ended otherwise than in 200 or 422, and how tag_projects ended.
NoHist == [pages |-> <<>>, resolved |-> "none", applied |-> <<>>, bad |-> FALSE,
           tagged |-> "none"]

\* A requeue chain: the configuration, the attempts written by the last
\* requeue, and the timeouts of the last two requeues (n counts them).
NoBackoff == [max_attempts |-> MAX_ATTEMPTS, max_minutes |-> MAX_TIMEOUT_MINUTES,
              attempts |-> 0, prev |-> 0, seconds |-> 0, n |-> 0]

\* The awaits of process_message on the queue transport, by source line.
DeleteSites == {"del_cap", "del_ok", "del_none", "del_decode"}
RequeueSites == {"rq_tagfail", "rq_inner", "rq_pending", "rq_other", "rq_outer"}
QueueSites == DeleteSites \cup RequeueSites

InProgress(m) == pc[m] \notin {"idle", "done"}
RenewalRunning(m) == renew[m] \in {"sleeping", "inflight"}

TypeOK ==
    /\ mainpc \in {"receive", "gather", "sleep", "crashed"}
    /\ \A m \in Ids :
        /\ pc[m] \in {"idle", "start", "status", "list", "tag", "await_cancel", "done"}
                     \cup QueueSites
        /\ renew[m] \in {"none", "sleeping", "inflight", "stopped", "cancelled"}
        /\ result[m] \in {"none", "returned", "raised", "cancelled"}
        /\ raced[m] \in BOOLEAN
        /\ all_successful[m] \in BOOLEAN

\* A message enqueued with attempts 0: written out, or left to the default
\* of line 303.
FreshBodies ==
    {ObjectText(BaseMembers(<<1, 2>>), FALSE),
     ObjectText(WithAttempts(<<1, 2>>, 0), FALSE)}

InitWith(present, bodies) ==
    /\ queue \in [Ids -> [present : BOOLEAN, content : InitBodies \cup BatchBodies \cup FreshBodies, vis : {0}]]
    /\ \A m \in Ids :
        /\ queue[m].present = (m \in present)
        /\ queue[m].content \in bodies[m]
    /\ mainpc = "receive"
    /\ pc = [m \in Ids |-> "idle"]
    /\ message = [m \in Ids |-> BadJson]
    /\ attempts = [m \in Ids |-> Unbound]
    /\ all_project_ids = [m \in Ids |-> <<>>]
    /\ tagpos = [m \in Ids |-> <<1, 1>>]
    /\ all_successful = [m \in Ids |-> TRUE]
    /\ renew = [m \in Ids |-> "none"]
    /\ calls = [m \in Ids |-> <<>>]
    /\ http = [m \in Ids |-> NoHttp]
    /\ status_resp = [m \in Ids |-> "none"]
    /\ raced = [m \in Ids |-> FALSE]
    /\ result = [m \in Ids |-> "none"]
    /\ hist = [m \in Ids |-> NoHist]
    /\ rounds = [m \in Ids |-> 0]

\* Either one message alone in the queue, or a batch of a job and a sibling.
Init ==
    /\ \/ InitWith(MsgIds, [m \in Ids |-> IF m \in MsgIds THEN InitBodies ELSE {BadJson}])
       \/ InitWith(BatchIds, [m \in Ids |-> IF m \in MsgIds THEN BatchBodies
                                            ELSE SiblingBodies])
    /\ backoff = NoBackoff

\* ------------------------------------------------------- HTTP collaborators
StatusResponses ==
    {"unreachable", "http_error", "wrong_content_type", "malformed_json",
     "empty_body", "json_list", "complete", "pending", "failed", "no_status_field"}

\* SnykApiClient._get: raise_for_status and response.json() raise; every
\* handler re-raises.  response.json() raises ContentTypeError (a
\* ClientResponseError) on a wrong content type, json.JSONDecodeError on a
\* body that is no JSON, and returns None on an empty body.
HttpGet(resp) ==
    CASE resp = "unreachable" -> [exc |-> "ClientError", data |-> "none"]
      [] resp \in {"http_error", "wrong_content_type"} ->
            [exc |-> "ClientResponseError", data |-> "none"]
      [] resp = "malformed_json" -> [exc |-> "JSONDecodeError", data |-> "none"]
      [] OTHER -> [exc |-> "none", data |-> resp]

\* SnykApiClient.get_import_job_status: data.get("status") of truthy data.
GetImportJobStatus(resp) ==
    LET g == HttpGet(resp)
    IN  IF g.exc # "none" THEN [exc |-> g.exc, value |-> "none"]
        ELSE IF g.data = "empty_body" THEN [exc |-> "none", value |-> "None"]
        ELSE IF g.data = "json_list" THEN [exc |-> "AttributeError", value |-> "none"]
        ELSE IF g.data = "no_status_field" THEN [exc |-> "none", value |-> "None"]
        ELSE [exc |-> "none", value |-> g.data]

Item(id, type) == [id |-> id, type |-> type]
PageChoices ==
    {<<>>, <<Item(1, "project")>>,
     <<Item(2, "project"), Item(3, "target"), Item(1, "project")>>}
ListErrors ==
    {"unreachable", "http_error", "malformed_json", "empty_body", "malformed_page"}
ListResponses ==
    [kind : {"page"}, items : PageChoices, next : BOOLEAN]
    \cup [kind : ListErrors, items : {<<>>}, next : {FALSE}]

\* ProjectIdsOf without the filter on the item type (line 181).
ProjectIdsOfAnyType(items) ==
    [i \in 1..Len(items) |-> items[i].id]

ProjectIdsOf(items) ==
    LET sel == SelectSeq(items, LAMBDA it : it.type = "project")
    IN  [i \in 1..Len(sel) |-> sel[i].id]

\* RetrievePage with a failed fetch ending the loop like a page without a
\* next link: the ids accumulated so far are returned.
RetrievePageKeepsPartial(resp) ==
    IF resp.kind # "page" THEN [exc |-> FALSE, ids |-> <<>>, next |-> FALSE]
    ELSE [exc |-> FALSE, ids |-> ProjectIdsOf(resp.items), next |-> resp.next]

\* One iteration of the loop of retrieve_project_ids: any exception of the
\* try block is re-raised as Exception(e); otherwise the ids of the page
\* and whether a next link follows.
RetrievePage(resp) ==
    IF resp.kind # "page" THEN [exc |-> TRUE, ids |-> <<>>, next |-> FALSE]
    ELSE [exc |-> FALSE, ids |-> ProjectIdsOf(resp.items), next |-> resp.next]

TagResponses == {"200", "422", "204", "http_error", "unreachable", "timeout"}

\* SnykApiClient._post: a 422 on a tags URL and any status that
\* raise_for_status accepts return the response, a ClientError returns
\* None, any other exception propagates.
HttpPost(resp) ==
    CASE resp \in {"200", "422", "204"} -> [exc |-> FALSE, status |-> resp]
      [] resp \in {"http_error", "unreachable"} -> [exc |-> FALSE, status |-> "None"]
      [] OTHER -> [exc |-> TRUE, status |-> "None"]

\* TagProject without the branch for 422 (lines 223-225): "already tagged"
\* counts as a failure.
TagProjectNo422(resp) ==
    LET r == HttpPost(resp)
    IN  [exc |-> r.exc, ok |-> ~r.exc /\ r.status \in {"200"}]

\* SnykApiClient._tag_project
TagProject(resp) ==
    LET r == HttpPost(resp)
    IN  [exc |-> r.exc, ok |-> ~r.exc /\ r.status \in {"200", "422"}]

\* ------------------------------------------------------------- queue calls
DeleteCall == [op |-> "delete", content |-> BadJson, timeout |-> 0]

\* RequeueCall with the key misspelt: attempts itself is not rewritten.
RequeueCallWrongKey(body, att) ==
    LET a == att + 1
        content == SetItem(Loads(body).dict, "attempt", JInt(a))
    IN  [op |-> "update", content |-> Dumps(content), timeout |-> TimeoutSeconds(a)]

\* RequeueCall with the timeout computed before the increment.
RequeueCallStaleTimeout(body, att) ==
    LET a == att + 1
        content == SetItem(Loads(body).dict, "attempts", JInt(a))
    IN  [op |-> "update", content |-> Dumps(content), timeout |-> TimeoutSeconds(att)]

\* requeue_message lines 387-396 for an integer attempts: the arguments of
\* update_message.
RequeueCall(body, att) ==
    LET a == att + 1
        content == SetItem(Loads(body).dict, "attempts", JInt(a))
    IN  [op |-> "update", content |-> Dumps(content), timeout |-> TimeoutSeconds(a)]

LastCall(m) == calls[m][Len(calls[m])]

\* The queue after call c on message m took effect.
Applied(m, c) ==
    IF c.op = "delete" THEN [queue EXCEPT ![m].present = FALSE]
    ELSE [queue EXCEPT ![m].content = c.content, ![m].vis = c.timeout]

\* ------------------------------------------- process_message: control flow
\* Finally with the cancellation placed after the try statement instead of
\* in its finally block: an exception that leaves a handler skips it.
FinallyAfterTry(m, res, running) ==
    /\ pc' = [pc EXCEPT ![m] = IF running /\ res # "raised" THEN "await_cancel" ELSE "done"]
    /\ result' = [result EXCEPT ![m] = res]
    /\ UNCHANGED <<calls, raced>>

\* The finally block (lines 364-370): cancel the renewal task and await it.
Finally(m, res, running) ==
    /\ pc' = [pc EXCEPT ![m] = IF running THEN "await_cancel" ELSE "done"]
    /\ result' = [result EXCEPT ![m] = res]
    /\ UNCHANGED <<calls, raced>>

\* await queue_client.delete_message(message), up to the await.
IssueDelete(m, site) ==
    /\ pc' = [pc EXCEPT ![m] = site]
    /\ calls' = [calls EXCEPT ![m] = Append(@, DeleteCall)]
    /\ raced' = [raced EXCEPT ![m] = @ \/ renew[m] = "inflight"]
    /\ UNCHANGED result

\* await requeue_message(message, queue_client, attempts), up to its await.
\* An unbound attempts raises UnboundLocalError at the call and a
\* non-integer attempts raises TypeError at "attempts += 1"; both happen
\* only in the outer handler (line 363), so the exception leaves
\* process_message through the finally block.
RequeueMessage(m, site, att, running) ==
    IF AttemptsInt(att)
    THEN /\ pc' = [pc EXCEPT ![m] = site]
         /\ calls' = [calls EXCEPT ![m] = Append(@, RequeueCall(message[m], att.n))]
         /\ raced' = [raced EXCEPT ![m] = @ \/ renew[m] = "inflight"]
         /\ UNCHANGED result
    ELSE Finally(m, "raised", running)

Goto(m, label) ==
    /\ pc' = [pc EXCEPT ![m] = label]
    /\ UNCHANGED <<calls, raced, result>>

\* The handler an exception raised at a queue await reaches: the inner
\* "except Exception" (line 340), the outer one (line 359), or none.
Handler(site) ==
    IF site \in {"del_ok", "del_none", "rq_tagfail"} THEN "rq_inner"
    ELSE IF site \in {"del_cap", "rq_inner", "rq_pending", "rq_other"} THEN "rq_outer"
    ELSE "escape"

\* Where process_message goes once the status is known (lines 315-354).
AfterStatus(m, st) ==
    IF st.exc = "JSONDecodeError" THEN IssueDelete(m, "del_decode")
    ELSE IF st.exc # "none" THEN RequeueMessage(m, "rq_outer", attempts[m], RenewalRunning(m))
    ELSE IF st.value = "complete" THEN Goto(m, "list")
    ELSE IF st.value = "pending"
         THEN RequeueMessage(m, "rq_pending", attempts[m], RenewalRunning(m))
    ELSE RequeueMessage(m, "rq_other", attempts[m], RenewalRunning(m))

TagsOf(m) == Get(Loads(message[m]).dict, "tags").l

\* Lines 326-339, once retrieve_project_ids returned ids: tag_projects
\* runs to its first await, or returns True at once when there is no pair.
AfterResolve(m, ids) ==
    IF ids = <<>> THEN IssueDelete(m, "del_none")
    ELSE IF TagsOf(m) = <<>> THEN IssueDelete(m, "del_ok")
    ELSE Goto(m, "tag")

\* Lines 327-334, once tag_projects returned.
AfterTagging(m, ok) ==
    IF ok THEN IssueDelete(m, "del_ok")
    ELSE RequeueMessage(m, "rq_tagfail", attempts[m], RenewalRunning(m))

\* ----------------------------------------------------- process_message steps
\* Begin without the check of the cap (lines 309-312).
BeginNoCap(m) ==
    /\ pc[m] = "start"
    /\ LET r == Decode(message[m])
       IN  /\ attempts' = [attempts EXCEPT ![m] = r.attempts]
           /\ renew' = [renew EXCEPT ![m] = "sleeping"]
           /\ IF r.exc \in {"JSONDecodeError", "KeyError"}
              THEN IssueDelete(m, "del_decode")
              ELSE IF r.exc # "none" \/ ~AttemptsInt(r.attempts)
              THEN RequeueMessage(m, "rq_outer", r.attempts, TRUE)
              ELSE Goto(m, "status")
    /\ UNCHANGED <<hist, backoff, rounds, queue, mainpc, message, all_project_ids, tagpos,
                   all_successful, http, status_resp>>

\* Lines 293-314: create the renewal task, decode, check the cap.
Begin(m) ==
    /\ pc[m] = "start"
    /\ LET r == Decode(message[m])
       IN  /\ attempts' = [attempts EXCEPT ![m] = r.attempts]
           /\ renew' = [renew EXCEPT ![m] = "sleeping"]
           /\ IF r.exc \in {"JSONDecodeError", "KeyError"}
              THEN IssueDelete(m, "del_decode")
              ELSE IF r.exc # "none" \/ ~AttemptsInt(r.attempts)
              THEN RequeueMessage(m, "rq_outer", r.attempts, TRUE)
              ELSE IF r.attempts.n >= MAX_ATTEMPTS
              THEN IssueDelete(m, "del_cap")
              ELSE Goto(m, "status")
    /\ UNCHANGED <<hist, backoff, rounds, queue, mainpc, message, all_project_ids, tagpos,
                   all_successful, http, status_resp>>

\* Line 314: the status poll answers.
Status(m) ==
    /\ pc[m] = "status"
    /\ \E resp \in StatusResponses :
        /\ AfterStatus(m, GetImportJobStatus(resp))
        /\ status_resp' = [status_resp EXCEPT ![m] = resp]
    /\ http' = [http EXCEPT ![m].status = @ + 1]
    /\ UNCHANGED <<hist, backoff, rounds, queue, mainpc, message, attempts, all_project_ids, tagpos,
                   all_successful, renew>>

\* Lines 174-199: one listing page answers.  hist records the answer
\* itself: the page served, or that the fetch failed.
List(m) ==
    /\ pc[m] = "list"
    /\ \E resp \in ListResponses :
        /\ resp.next => http[m].list + 1 < MaxPages
        /\ LET r == RetrievePage(resp)
               ids == all_project_ids[m] \o r.ids
           IN  /\ IF r.exc
                  THEN /\ RequeueMessage(m, "rq_inner", attempts[m], RenewalRunning(m))
                       /\ UNCHANGED all_project_ids
                  ELSE /\ all_project_ids' = [all_project_ids EXCEPT ![m] = ids]
                       /\ IF r.next THEN Goto(m, "list") ELSE AfterResolve(m, ids)
               /\ hist' = [hist EXCEPT
                     ![m].pages = IF resp.kind = "page"
                                  THEN Append(@, [items |-> resp.items, next |-> resp.next])
                                  ELSE @,
                     ![m].resolved = IF resp.kind # "page" THEN "error"
                                     ELSE IF resp.next THEN "none" ELSE "ok",
                     ![m].tagged = IF ~r.exc /\ ~r.next /\ ids # <<>> /\ TagsOf(m) = <<>>
                                   THEN "true" ELSE @]
    /\ http' = [http EXCEPT ![m].list = @ + 1]
    /\ UNCHANGED <<backoff, rounds, queue, mainpc, message, attempts, tagpos, all_successful,
                   renew, status_resp>>

\* Lines 249-255: one tag-apply call answers.  The locals of tag_projects
\* hold their initial values whenever tag_projects is not running.  hist
\* records the pair posted, whether the answer was a 200 or a 422, and
\* how tag_projects ended.
Tag(m) ==
    /\ pc[m] = "tag"
    /\ \E resp \in TagResponses :
        LET r == TagProject(resp)
            ok == all_successful[m] /\ r.ok
            i == tagpos[m][1]
            j == tagpos[m][2]
            last == i = Len(all_project_ids[m]) /\ j = Len(TagsOf(m))
        IN  /\ IF r.exc
               THEN /\ RequeueMessage(m, "rq_inner", attempts[m], RenewalRunning(m))
                    /\ tagpos' = [tagpos EXCEPT ![m] = <<1, 1>>]
                    /\ all_successful' = [all_successful EXCEPT ![m] = TRUE]
               ELSE IF last
               THEN /\ AfterTagging(m, ok)
                    /\ tagpos' = [tagpos EXCEPT ![m] = <<1, 1>>]
                    /\ all_successful' = [all_successful EXCEPT ![m] = TRUE]
               ELSE /\ Goto(m, "tag")
                    /\ all_successful' = [all_successful EXCEPT ![m] = ok]
                    /\ tagpos' = [tagpos EXCEPT ![m] =
                                    IF j < Len(TagsOf(m)) THEN <<i, j + 1>> ELSE <<i + 1, 1>>]
            /\ hist' = [hist EXCEPT
                  ![m].applied = Append(@, <<all_project_ids[m][i], TagsOf(m)[j]>>),
                  ![m].bad = @ \/ resp \notin {"200", "422"},
                  ![m].tagged = IF r.exc THEN "raised"
                                ELSE IF ~last THEN "none"
                                ELSE IF ok THEN "true" ELSE "false"]
    /\ http' = [http EXCEPT ![m].tag = @ + 1]
    /\ UNCHANGED <<backoff, rounds, queue, mainpc, message, attempts, all_project_ids, renew,
                   status_resp>>

CallAllowed(c) ==
    c.op = "update" =>
        Get(Loads(c.content).dict, "attempts").n <= MAX_ATTEMPTS + MaxOvershoot

\* A delete_message or update_message of the processor succeeds.
QueueCallSucceeds(m) ==
    /\ pc[m] \in QueueSites
    /\ queue[m].present
    /\ CallAllowed(LastCall(m))
    /\ queue' = Applied(m, LastCall(m))
    /\ Finally(m, "returned", RenewalRunning(m))
    /\ UNCHANGED <<hist, backoff, rounds, mainpc, message, attempts, all_project_ids, tagpos, all_successful,
                   renew, http, status_resp>>

\* A delete_message or update_message of the processor raises.
QueueCallRaises(m) ==
    /\ pc[m] \in QueueSites
    /\ IF Handler(pc[m]) = "escape"
       THEN Finally(m, "raised", RenewalRunning(m))
       ELSE RequeueMessage(m, Handler(pc[m]), attempts[m], RenewalRunning(m))
    /\ UNCHANGED <<hist, backoff, rounds, queue, mainpc, message, attempts, all_project_ids, tagpos,
                   all_successful, renew, http, status_resp>>

\* The await of the finally block returns.
ProcessReturns(m) ==
    /\ pc[m] = "await_cancel"
    /\ ~RenewalRunning(m)
    /\ pc' = [pc EXCEPT ![m] = "done"]
    /\ UNCHANGED <<hist, backoff, rounds, queue, mainpc, message, attempts, all_project_ids, tagpos,
                   all_successful, renew, calls, http, status_resp, raced, result>>

\* ------------------------------------------------------------- renew_lease
\* The sleep is over and update_message is issued (lines 267-272).
RenewIssue(m) ==
    /\ renew[m] = "sleeping"
    /\ pc[m] \notin {"idle", "start", "await_cancel", "done"}
    /\ renew' = [renew EXCEPT ![m] = "inflight"]
    /\ raced' = [raced EXCEPT ![m] = @ \/ calls[m] # <<>>]
    /\ UNCHANGED <<hist, backoff, rounds, queue, mainpc, pc, message, attempts, all_project_ids, tagpos,
                   all_successful, calls, http, status_resp, result>>

RenewSucceeds(m) ==
    /\ renew[m] = "inflight"
    /\ pc[m] # "await_cancel"
    /\ queue[m].present
    /\ queue' = [queue EXCEPT ![m].vis = VISIBILITY_TIMEOUT_SECONDS]
    /\ renew' = [renew EXCEPT ![m] = "sleeping"]
    /\ UNCHANGED <<hist, backoff, rounds, mainpc, pc, message, attempts, all_project_ids, tagpos,
                   all_successful, calls, http, status_resp, raced, result>>

\* RenewFails with the exception leaving the task and reaching the
\* processor that awaits it.
RenewFailsAndPropagates(m) ==
    /\ renew[m] = "inflight"
    /\ pc[m] # "await_cancel"
    /\ renew' = [renew EXCEPT ![m] = "stopped"]
    /\ pc' = [pc EXCEPT ![m] = "done"]
    /\ result' = [result EXCEPT ![m] = "raised"]
    /\ UNCHANGED <<hist, backoff, rounds, queue, mainpc, message, attempts,
                   all_project_ids, tagpos, all_successful, calls, http, status_resp,
                   raced>>

\* Lines 274-276: the renewal raised, the task ends.
RenewFails(m) ==
    /\ renew[m] = "inflight"
    /\ pc[m] # "await_cancel"
    /\ renew' = [renew EXCEPT ![m] = "stopped"]
    /\ UNCHANGED <<hist, backoff, rounds, queue, mainpc, pc, message, attempts, all_project_ids, tagpos,
                   all_successful, calls, http, status_resp, raced, result>>

\* The task takes the CancelledError of renewal_task.cancel(); a request
\* that was in flight may or may not have reached the queue.
RenewCancelled(m) ==
    /\ pc[m] = "await_cancel"
    /\ RenewalRunning(m)
    /\ renew' = [renew EXCEPT ![m] = "cancelled"]
    /\ \E applied \in BOOLEAN :
        IF applied /\ renew[m] = "inflight" /\ queue[m].present
        THEN queue' = [queue EXCEPT ![m].vis = VISIBILITY_TIMEOUT_SECONDS]
        ELSE UNCHANGED queue
    /\ UNCHANGED <<hist, backoff, rounds, mainpc, pc, message, attempts, all_project_ids, tagpos,
                   all_successful, calls, http, status_resp, raced, result>>

\* --------------------------------------------------------------------- main
\* Lines 411-419: receive the visible messages and create one task each.
\* Which of the present messages are visible depends on elapsed time, so
\* any subset may be delivered.
Deliver(S) ==
    /\ mainpc' = IF S = {} THEN "sleep" ELSE "gather"
    /\ pc' = [m \in Ids |-> IF m \in S THEN "start" ELSE "idle"]
    /\ message' = [m \in Ids |-> IF m \in S THEN queue[m].content ELSE BadJson]
    /\ queue' = [m \in Ids |->
                   IF m \in S THEN [queue[m] EXCEPT !.vis = VISIBILITY_TIMEOUT_SECONDS]
                   ELSE queue[m]]
    /\ attempts' = [m \in Ids |-> Unbound]
    /\ all_project_ids' = [m \in Ids |-> <<>>]
    /\ tagpos' = [m \in Ids |-> <<1, 1>>]
    /\ all_successful' = [m \in Ids |-> TRUE]
    /\ renew' = [m \in Ids |-> "none"]
    /\ calls' = [m \in Ids |-> <<>>]
    /\ http' = [m \in Ids |-> NoHttp]
    /\ status_resp' = [m \in Ids |-> "none"]
    /\ raced' = [m \in Ids |-> FALSE]
    /\ result' = [m \in Ids |-> "none"]
    /\ hist' = [m \in Ids |-> NoHist]

Receive ==
    /\ mainpc = "receive"
    /\ \E S \in SUBSET {m \in Ids : queue[m].present} : Deliver(S)
    /\ UNCHANGED <<backoff, rounds>>

\* GatherReturns that waits for the first task only
\* (asyncio.wait with FIRST_COMPLETED in place of gather).
GatherReturnsOnFirst ==
    /\ mainpc = "gather"
    /\ \E m \in Ids : pc[m] = "done" /\ result[m] = "returned"
    /\ \A m \in Ids : ~(pc[m] = "done" /\ result[m] = "raised")
    /\ mainpc' = "sleep"
    /\ UNCHANGED <<hist, backoff, rounds, queue, pc, message, attempts, all_project_ids,
                   tagpos, all_successful, renew, calls, http, status_resp, raced,
                   result>>

\* Line 422: asyncio.gather returns once every task of the batch returned.
GatherReturns ==
    /\ mainpc = "gather"
    /\ \A m \in Ids : pc[m] # "idle" => pc[m] = "done" /\ result[m] = "returned"
    /\ mainpc' = "sleep"
    /\ UNCHANGED <<hist, backoff, rounds, queue, pc, message, attempts, all_project_ids, tagpos,
                   all_successful, renew, calls, http, status_resp, raced, result>>

\* Line 422: asyncio.gather re-raises the first exception of a task; main
\* leaves its loop through the finally block and the program ends.
GatherRaises ==
    /\ mainpc = "gather"
    /\ \E m \in Ids : pc[m] = "done" /\ result[m] = "raised"
    /\ mainpc' = "crashed"
    /\ UNCHANGED <<hist, backoff, rounds, queue, pc, message, attempts, all_project_ids, tagpos,
                   all_successful, renew, calls, http, status_resp, raced, result>>

\* Line 423
Sleep ==
    /\ mainpc = "sleep"
    /\ mainpc' = "receive"
    /\ UNCHANGED <<hist, backoff, rounds, queue, pc, message, attempts, all_project_ids, tagpos,
                   all_successful, renew, calls, http, status_resp, raced, result>>

\* asyncio.run cancels the tasks main left behind, which have gone on
\* running while main closed the session: CancelledError is raised at the
\* await of process_message, passes "except Exception" and runs the
\* finally block.  A queue call in flight may or may not have reached the
\* queue.
Cancelled(m) ==
    /\ mainpc = "crashed"
    /\ InProgress(m)
    /\ pc[m] # "await_cancel"
    /\ IF pc[m] = "start"
       THEN /\ pc' = [pc EXCEPT ![m] = "done"]
            /\ result' = [result EXCEPT ![m] = "cancelled"]
            /\ UNCHANGED <<calls, raced>>
       ELSE Finally(m, "cancelled", RenewalRunning(m))
    /\ \E applied \in BOOLEAN :
        IF applied /\ pc[m] \in QueueSites /\ queue[m].present /\ CallAllowed(LastCall(m))
        THEN queue' = Applied(m, LastCall(m))
        ELSE UNCHANGED queue
    /\ UNCHANGED <<hist, backoff, rounds, mainpc, message, attempts, all_project_ids, tagpos, all_successful,
                   renew, http, status_resp>>

Next ==
    \/ Receive
    \/ GatherReturns
    \/ GatherRaises
    \/ Sleep
    \/ \E m \in Ids :
        \/ Begin(m)
        \/ Status(m)
        \/ List(m)
        \/ Tag(m)
        \/ QueueCallSucceeds(m)
        \/ QueueCallRaises(m)
        \/ ProcessReturns(m)
        \/ RenewIssue(m)
        \/ RenewSucceeds(m)
        \/ RenewFails(m)
        \/ RenewCancelled(m)
        \/ Cancelled(m)

Spec == Init /\ [][Next]_vars

\* --------------------------------------------------- the backoff on its own
\* A message is requeued again and again under one configuration
\* (MAX_ATTEMPTS and MAX_TIMEOUT_MINUTES are read from the environment,
\* lines 30-31): each requeue runs lines 387-392 on the attempts the
\* previous one wrote.
InitBackoff ==
    /\ InitWith(MsgIds, [m \in Ids |-> {BadJson}])
    /\ backoff \in [max_attempts : 1..MaxCap, max_minutes : 1..MaxMinutes,
                     attempts : {0}, prev : {0}, seconds : {0}, n : {0}]

Requeue ==
    /\ backoff.attempts < backoff.max_attempts
    /\ backoff' = [backoff EXCEPT
                     !.attempts = @ + 1,
                     !.prev = backoff.seconds,
                     !.seconds = VisibilityTimeout(backoff.attempts + 1,
                                                   backoff.max_attempts,
                                                   backoff.max_minutes),
                     !.n = IF @ < 2 THEN @ + 1 ELSE @]
    /\ UNCHANGED <<queue, mainpc, pc, message, attempts, all_project_ids, tagpos,
                   all_successful, renew, calls, http, status_resp, raced, result, hist,
                   rounds>>

NextBackoff == Requeue

SpecBackoff == InitBackoff /\ [][NextBackoff]_vars

\* ------------------------------------------- a queue that works and redelivers
\* A queue whose calls all succeed and that delivers the message again at
\* the receive after its visibility timeout, holding one of FreshBodies.
\* rounds counts the deliveries.
InitReliable ==
    /\ InitWith(MsgIds, [m \in Ids |-> IF m \in MsgIds THEN FreshBodies ELSE {BadJson}])
    /\ backoff = NoBackoff

Redeliver ==
    /\ mainpc = "receive"
    /\ LET S == {m \in Ids : queue[m].present}
       IN  /\ \A m \in S : rounds[m] <= MAX_ATTEMPTS + MaxOvershoot
           /\ Deliver(S)
           /\ rounds' = [m \in Ids |-> IF m \in S THEN rounds[m] + 1 ELSE rounds[m]]
    /\ UNCHANGED backoff

MainStep == Redeliver \/ GatherReturns \/ Sleep

ProcessStep(m) ==
    \/ Begin(m)
    \/ Status(m)
    \/ List(m)
    \/ Tag(m)
    \/ QueueCallSucceeds(m)
    \/ ProcessReturns(m)
    \/ RenewCancelled(m)

RenewalStep(m) == RenewIssue(m) \/ RenewSucceeds(m)

NextReliable ==
    \/ MainStep
    \/ \E m \in Ids : ProcessStep(m) \/ RenewalStep(m)

\* The event loop runs main and every task that is ready; every HTTP call
\* ends (the session's total timeout) and so does every queue call.  The
\* renewal task sleeps between its calls, so it never keeps the others
\* from running.
SpecReliable ==
    /\ InitReliable
    /\ [][NextReliable]_vars
    /\ WF_vars(MainStep)
    /\ \A m \in MsgIds : WF_vars(ProcessStep(m))

\* ------------------------------------------------------------------ claims
Finished(m) == pc[m] = "done" /\ result[m] \in {"returned", "raised"}
Started(m) == pc[m] \notin {"idle", "start"}
Deletes(m) == {i \in 1..Len(calls[m]) : calls[m][i].op = "delete"}
Updates(m) == {i \in 1..Len(calls[m]) : calls[m][i].op = "update"}
ReadAttempts(m) == Decode(message[m]).attempts.n
AttemptsIn(body) == Get(Loads(body).dict, "attempts")

\* C1: every invocation of process_message issues exactly one terminal
\* queue call (delete_message or the requeue update_message): never more
\* than one, and one once it has returned or raised.
C1_ExactlyOneTerminalCall ==
    \A m \in Ids :
        /\ Len(calls[m]) <= 1
        /\ Finished(m) => Len(calls[m]) = 1

\* C2: no renewal update_message is in flight when the processor issues its
\* terminal call, and none is issued after it: the renewal task was
\* cancelled before.
C2_NoRenewalAtOrAfterTerminal ==
    \A m \in Ids : ~raced[m]

\* C3: a well-formed message read with attempts >= MAX_ATTEMPTS is deleted
\* and never requeued, without any status, listing or tag-apply call.
C3_CapDeletesNeverRequeues ==
    \A m \in Ids :
        (Started(m) /\ WellFormed(message[m]) /\ ReadAttempts(m) >= MAX_ATTEMPTS)
        => /\ Updates(m) = {}
           /\ http[m] = NoHttp
           /\ Finished(m) => Deletes(m) # {}

\* C4: the attempts stored in a job message stays in 0..MAX_ATTEMPTS, and a
\* message read with attempts = MAX_ATTEMPTS is never the target of a
\* requeue update.
C4_AttemptsBounded ==
    \A m \in Ids :
        /\ (queue[m].present /\ WellFormed(queue[m].content))
           => Decode(queue[m].content).attempts.n \in 0..MAX_ATTEMPTS
        /\ (Started(m) /\ WellFormed(message[m]) /\ ReadAttempts(m) = MAX_ATTEMPTS)
           => Updates(m) = {}

\* C5: a message whose body does not decode into a job descriptor (no
\* JSON, or lacking a required field) is deleted, never requeued, and no
\* HTTP call is made.
C5_UndecodableIsDeleted ==
    \A m \in Ids :
        (Started(m) /\ Decode(message[m]).exc # "none")
        => /\ Updates(m) = {}
           /\ http[m] = NoHttp
           /\ Finished(m) => Deletes(m) # {}

\* C6: when the status poll of a well-formed message with attempts <
\* MAX_ATTEMPTS fails (endpoint unreachable, HTTP error, body that is no
\* JSON), the message is requeued with attempts incremented and is not
\* deleted.
PollFailures == {"unreachable", "http_error", "wrong_content_type", "malformed_json"}

C6_PollFailureRequeues ==
    \A m \in Ids :
        status_resp[m] \in PollFailures
        => /\ Deletes(m) = {}
           /\ calls[m] # <<>>
           /\ AttemptsIn(calls[m][1].content) = JInt(ReadAttempts(m) + 1)

\* C7: no error escapes process_message, so main's gather never raises.
C7_NothingEscapes ==
    /\ \A m \in Ids : result[m] # "raised"

\* C8: a renewal task runs only while its process_message is in progress:
\* once process_message has returned or raised, on any path, the task has
\* been cancelled (or has ended by itself).
C8_RenewalOnlyDuringProcessing ==
    \A m \in Ids : RenewalRunning(m) => InProgress(m)

\* C8 witness: process_message raised out of an exception handler after a
\* queue call, and its renewal task is cancelled.
C8_Witness ==
    \E m \in Ids :
        /\ pc[m] = "done" /\ result[m] = "raised"
        /\ calls[m] # <<>>
        /\ renew[m] = "cancelled"

\* C9: the body a requeue of a message with attempts < MAX_ATTEMPTS writes
\* back has attempts = previous attempts + 1 and every other field equal
\* to the field of the received body.
C9_RequeueRewritesOnlyAttempts ==
    \A m \in Ids : \A i \in Updates(m) :
        ReadAttempts(m) < MAX_ATTEMPTS
        => LET old == Loads(message[m]).dict
               new == Loads(calls[m][i].content)
           IN  /\ new.exc = "none" /\ new.type = "dict"
               /\ Has(new.dict, "attempts")
               /\ Get(new.dict, "attempts") = JInt(ReadAttempts(m) + 1)
               /\ \A k \in {RequiredKeys[j] : j \in 1..Len(RequiredKeys)} :
                    Has(new.dict, k) /\ Get(new.dict, k) = Get(old, k)
               /\ {new.dict[j][1] : j \in 1..Len(new.dict)}
                    = {old[j][1] : j \in 1..Len(old)} \cup {"attempts"}

\* C9 witness: a requeue of a body that has a repeated key and white
\* space, so that the text written back differs from the text received.
C9_Witness ==
    \E m \in Ids :
        /\ Updates(m) # {}
        /\ message[m].ws
        /\ ReadAttempts(m) < MAX_ATTEMPTS

\* C10: the visibility timeout of a requeue of a message read with
\* attempts = a is floor(base_seconds * 0.5^(MAX_ATTEMPTS - (a + 1))), not
\* the value for a; a = 0 gives attempts 1, and a requeue that brings
\* attempts to MAX_ATTEMPTS uses exactly base_seconds.
BaseSeconds == MAX_TIMEOUT_MINUTES * 60

IsBackoffOf(t, n) ==
    IF n <= MAX_ATTEMPTS
    THEN /\ t * Pow2(MAX_ATTEMPTS - n) <= BaseSeconds
         /\ BaseSeconds < (t + 1) * Pow2(MAX_ATTEMPTS - n)
    ELSE t = BaseSeconds * Pow2(n - MAX_ATTEMPTS)

C10_BackoffOfPostIncrement ==
    \A m \in Ids : \A i \in Updates(m) :
        LET a == ReadAttempts(m)
            c == calls[m][i]
        IN  /\ IsBackoffOf(c.timeout, a + 1)
            /\ ~IsBackoffOf(c.timeout, a)
            /\ a = 0 => AttemptsIn(c.content) = JInt(1)
            /\ a + 1 = MAX_ATTEMPTS => c.timeout = BaseSeconds

\* C10 witness: a pending message with attempts 0 is requeued.
C10_Witness ==
    \E m \in Ids :
        /\ ReadAttempts(m) = 0
        /\ status_resp[m] = "pending"
        /\ Updates(m) # {}
        /\ queue[m].vis = BaseSeconds \div Pow2(MAX_ATTEMPTS - 1)

\* Two consecutive requeues of a chain have been computed.
TwoRequeues == backoff.n = 2

\* C11 as stated: with MAX_ATTEMPTS and MAX_TIMEOUT_MINUTES fixed, one more
\* attempt halves the visibility duration (to the whole second).
C11_OneMoreAttemptHalves ==
    TwoRequeues => backoff.seconds = backoff.prev \div 2

\* C11, amended: with MAX_ATTEMPTS and MAX_TIMEOUT_MINUTES fixed, one more
\* attempt doubles the visibility duration, up to the second that int()
\* dropped from the shorter one; at attempts = MAX_ATTEMPTS the duration is
\* the full MAX_TIMEOUT_MINUTES.
C11_OneMoreAttemptDoubles ==
    /\ TwoRequeues => backoff.seconds \in {2 * backoff.prev, 2 * backoff.prev + 1}
    /\ backoff.n > 0 /\ backoff.attempts = backoff.max_attempts
           => backoff.seconds = backoff.max_minutes * 60

\* The second requeue of the shipped configuration: 112 s, then 225 s.
C11_Witness ==
    /\ TwoRequeues
    /\ backoff.max_attempts = MAX_ATTEMPTS /\ backoff.max_minutes = MAX_TIMEOUT_MINUTES
    /\ backoff.attempts = 2
    /\ backoff.prev = 112 /\ backoff.seconds = 225

\* A well-formed message below the cap was processed, and the one queue
\* call process_message issued succeeded.
Disposed(m) ==
    /\ Finished(m) /\ result[m] = "returned"
    /\ WellFormed(message[m]) /\ ReadAttempts(m) < MAX_ATTEMPTS
    /\ Len(calls[m]) = 1

\* What the collaborators answered calls for a delete: the job is
\* complete and either the listing ended with no project id, or every
\* pair of the cross product was posted and answered by 200 or 422.
AnswersCallForDelete(m) ==
    /\ status_resp[m] = "complete"
    /\ hist[m].resolved = "ok"
    /\ \/ all_project_ids[m] = <<>>
       \/ /\ Len(hist[m].applied) = Len(all_project_ids[m]) * Len(TagsOf(m))
          /\ ~hist[m].bad

\* C12: a well-formed message below the cap whose queue calls succeed is
\* deleted if and only if the status is "complete" and either no project
\* id was resolved or every tag-apply succeeded; otherwise it is requeued.
C12_DispositionIsFunctionOfAnswers ==
    \A m \in Ids :
        Disposed(m) =>
            /\ calls[m][1].op = "delete" <=> AnswersCallForDelete(m)
            /\ calls[m][1].op = "update" <=> ~AnswersCallForDelete(m)

\* The same with the status answers that are no JSON left out.
C12_ButForUndecodableStatus ==
    \A m \in Ids :
        Disposed(m) /\ status_resp[m] # "malformed_json" =>
            /\ calls[m][1].op = "delete" <=> AnswersCallForDelete(m)
            /\ calls[m][1].op = "update" <=> ~AnswersCallForDelete(m)

\* The pairs of the cross product in resource-major order.
CrossProduct(ids, tags) ==
    [k \in 1..(Len(ids) * Len(tags)) |->
        <<ids[((k - 1) \div Len(tags)) + 1], tags[((k - 1) % Len(tags)) + 1]>>]

IsPrefix(s, t) == Len(s) <= Len(t) /\ \A k \in 1..Len(s) : s[k] = t[k]

\* tag_projects was called, and it is over.
TaggingStarted(m) == pc[m] = "tag" \/ hist[m].tagged # "none"
TaggingOver(m) == hist[m].tagged # "none"

\* C13: tag_projects posts every (project, tag) pair of the cross product
\* exactly once, projects in the outer loop and tags in the inner one,
\* whatever the posts answer: when it is over, all
\* len(project_ids) * len(tags) posts were made.
C13_WholeCrossProductPosted ==
    \A m \in Ids :
        TaggingStarted(m) =>
            /\ IsPrefix(hist[m].applied, CrossProduct(all_project_ids[m], TagsOf(m)))
            /\ TaggingOver(m) =>
                   hist[m].applied = CrossProduct(all_project_ids[m], TagsOf(m))

\* The same for the answers that _post turns into a response or None.
C13_ButForOtherExceptions ==
    \A m \in Ids :
        TaggingStarted(m) =>
            /\ IsPrefix(hist[m].applied, CrossProduct(all_project_ids[m], TagsOf(m)))
            /\ TaggingOver(m) /\ hist[m].tagged # "raised" =>
                   hist[m].applied = CrossProduct(all_project_ids[m], TagsOf(m))

ListingFailed(m) == hist[m].resolved = "error"

\* C15: once the fetch of a listing page has failed, on the first page or
\* on a later one, no tag-apply call is made in that attempt, whatever
\* ids the earlier pages carried, and process_message requeues: the queue
\* calls it issues are requeue updates with attempts + 1, never a delete.
C15_ListingFailureRequeuesUntagged ==
    \A m \in Ids :
        ListingFailed(m) =>
            /\ http[m].tag = 0 /\ hist[m].applied = <<>> /\ ~TaggingStarted(m)
            /\ calls[m] # <<>>
            /\ \A i \in 1..Len(calls[m]) :
                   calls[m][i] = RequeueCall(message[m], ReadAttempts(m))

\* The second page failed after the first had carried a project id, and
\* the requeue is in the queue.
C15_Witness ==
    \E m \in Ids :
        /\ ListingFailed(m) /\ Finished(m) /\ result[m] = "returned"
        /\ Len(hist[m].pages) = 1 /\ all_project_ids[m] # <<>>
        /\ queue[m].present
        /\ AttemptsIn(queue[m].content) = JInt(ReadAttempts(m) + 1)

\* The ids of the items of type project of the pages served, page after
\* page and item after item.
RECURSIVE IdsOfItems(_)
IdsOfItems(items) ==
    IF items = <<>> THEN <<>>
    ELSE (IF Head(items).type = "project" THEN <<Head(items).id>> ELSE <<>>)
         \o IdsOfItems(Tail(items))

RECURSIVE IdsOfPages(_)
IdsOfPages(pages) ==
    IF pages = <<>> THEN <<>>
    ELSE IdsOfItems(Head(pages).items) \o IdsOfPages(Tail(pages))

\* retrieve_project_ids returned its list.
Resolved(m) == hist[m].resolved = "ok"

\* C16: when every page fetch succeeds, retrieve_project_ids goes from
\* page to page along the next links, stops at the first page without
\* one, and returns the ids of the items of type project of all pages in
\* page order and within-page order, none dropped, moved or merged.
C16_ConcatenationOfAllPages ==
    \A m \in Ids :
        /\ all_project_ids[m] = IdsOfPages(hist[m].pages)
        /\ \A k \in 1..(Len(hist[m].pages) - 1) : hist[m].pages[k].next
        /\ pc[m] = "list" /\ hist[m].pages # <<>> =>
               hist[m].pages[Len(hist[m].pages)].next
        /\ ~ListingFailed(m) => Len(hist[m].pages) = http[m].list
        /\ Resolved(m) =>
               /\ pc[m] # "list"
               /\ hist[m].pages # <<>>
               /\ ~hist[m].pages[Len(hist[m].pages)].next

\* MaxPages pages with three items and two project ids each were served.
C16_Witness ==
    \E m \in Ids :
        /\ Resolved(m)
        /\ Len(hist[m].pages) = MaxPages
        /\ \A k \in 1..MaxPages : Len(hist[m].pages[k].items) = 3
        /\ Len(all_project_ids[m]) = 2 * MaxPages
        /\ all_project_ids[m][1] = 2 /\ all_project_ids[m][2] = 1

\* process_message has returned after a requeue update that succeeded.
Requeued(m) ==
    /\ pc[m] = "done" /\ result[m] = "returned"
    /\ calls[m] # <<>> /\ LastCall(m).op = "update"

\* C17: once process_message has returned from a requeue, the queue holds
\* the backoff of the requeue update as the visibility timeout of the
\* message: no renewal update took effect after the requeue update.
C17_BackoffSurvivesRenewal ==
    \A m \in Ids :
        Requeued(m) /\ queue[m].present => queue[m].vis = LastCall(m).timeout

\* The message of a single-message run.
TheMessage == CHOOSE m \in MsgIds : TRUE

Gone(m) == ~queue[m].present

\* The requeues of a message enqueued with attempts 0 that took effect:
\* each one wrote attempts + 1.
RequeuesOf(m) == Decode(queue[m].content).attempts.n

\* In each round so far: at most MAX_ATTEMPTS requeues, at most
\* MAX_ATTEMPTS rounds that polled the status, and after them at most one
\* round, which makes no HTTP call and only deletes.
WorkBounded(m) ==
    /\ ~Gone(m) => RequeuesOf(m) <= MAX_ATTEMPTS /\ RequeuesOf(m) <= rounds[m]
    /\ rounds[m] <= MAX_ATTEMPTS + 1
    /\ http[m].status > 0 => rounds[m] <= MAX_ATTEMPTS
    /\ rounds[m] = MAX_ATTEMPTS + 1 =>
           /\ http[m] = NoHttp
           /\ calls[m] \in {<<>>, <<DeleteCall>>}

RenewalStopped(m) == renew[m] = "stopped"

\* What process_message does with the message as a function of the
\* answers it got, as the code stands (the status answer that is no JSON
\* ends in the delete of line 358).
DisposesAsAnswered(m) ==
    calls[m][1].op = "delete"
        <=> (AnswersCallForDelete(m) \/ status_resp[m] = "malformed_json")

\* C19: once a renewal update_message has failed, the renewal task makes
\* no further call for that delivery of the message; the failure changes
\* nothing in process_message, which goes on to the disposition the
\* answers of its collaborators call for.
C19_RenewalFailsOpen ==
    /\ [](\A m \in Ids : RenewalStopped(m) /\ Disposed(m) => DisposesAsAnswered(m))
    /\ [][\A m \in Ids :
            /\ RenewalStopped(m) => renew'[m] \in {"stopped", "none"}
            /\ ~RenewalStopped(m) /\ renew'[m] = "stopped" =>
                   /\ renew[m] = "inflight"
                   /\ pc'[m] = pc[m] /\ result'[m] = result[m]
                   /\ calls'[m] = calls[m] /\ attempts'[m] = attempts[m]
                   /\ queue'[m] = queue[m]]_vars

\* After a failed renewal, a complete job was tagged and its message
\* deleted.
C19_Witness ==
    \E m \in Ids :
        /\ RenewalStopped(m)
        /\ Disposed(m) /\ AnswersCallForDelete(m)
        /\ Len(hist[m].applied) > 0
        /\ Gone(m)

====
